---- MODULE Spec2Model ----
(***************************************************************************)
(* Photo gallery application (photo-gallery-app/App.tsx): the React state  *)
(* of App and CameraScreen, the asynchronous handlers split at their       *)
(* awaits, and the platform collaborators (media store, camera, sharing,   *)
(* permission prompts) as the environment.                                 *)
(*                                                                         *)
(* Scheduling model: JavaScript is single threaded, so the code between    *)
(* two awaits of a handler runs as one step and the state updates it makes *)
(* are applied together (React batches the updates of one synchronous      *)
(* stretch into one commit).  Callbacks close over the values of the last  *)
(* render (variable rendered).  A press is a discrete event: it is handled *)
(* when no render is pending and its updates are rendered before the next  *)
(* event.  Updates made by a promise continuation or by the list's         *)
(* onEndReached are rendered by a later Render step, so that a second      *)
(* onEndReached or a response can come before the render.                  *)
(***************************************************************************)
EXTENDS Integers, Sequences, FiniteSets

\* ---- bounds ----
NumAssets == 2       \* photos in the media store at start
PageSize == 1        \* stands for `first` (60 in the source), scaled down
MaxPending == 2      \* platform calls awaiting a response at one time
MaxDeletions == 1    \* photos the user deletes over a run
MaxId == NumAssets + 1        \* one photo can be saved over a run
MaxListLen == NumAssets + 1   \* cap on the length of the asset list

\* ---- values ----
NULL == 0
UNDEFINED == -1

VARIABLES
    hasMediaPermission, \* "null", "true", "false"
    assets,             \* sequence of asset ids
    endCursor,          \* NULL or an asset id
    hasNextPage,
    isLoadingAssets,
    screen,             \* "gallery", "camera", "viewer"
    selectedAsset,      \* NULL or an asset id
    cameraPermission,   \* cameraPermission?.granted of App
    isSaving,           \* state of the mounted CameraScreen
    rendered,           \* the values the current callbacks closed over
    library,            \* ids in the platform media store
    nextId,             \* id the next saved capture gets
    inflight,           \* getAssetsAsync calls awaiting their response
    deletes,            \* deleteAssetsAsync calls awaiting their response
    shots,              \* onTakeShot calls awaiting takePicture / save
    camRequests,        \* openCamera calls awaiting requestCameraPermission
    shares,             \* onShareSelected calls awaiting isAvailableAsync
                        \* ("available") or shareAsync ("share")
    platformOS,         \* Platform.OS
    refreshed,          \* <<page>> once a refresh that is the latest pagination
                        \* call has succeeded, until the next pagination call
                        \* or delete; else <<>>
    alert               \* the Alert.alert of the last step, "none" if none

vars == <<hasMediaPermission, assets, endCursor, hasNextPage, isLoadingAssets,
          screen, selectedAsset, cameraPermission, isSaving, rendered, library,
          nextId, inflight, deletes, shots, camRequests, shares, platformOS,
          refreshed, alert>>

gallery == <<assets, endCursor, hasNextPage>>

\* ---- helpers ----
Max(S) == CHOOSE x \in S : \A y \in S : y <= x

RECURSIVE TakeDesc(_, _)
TakeDesc(S, n) ==
    IF n = 0 \/ S = {} THEN <<>>
    ELSE <<Max(S)>> \o TakeDesc(S \ {Max(S)}, n - 1)

RemoveAt(s, i) == SubSeq(s, 1, i - 1) \o SubSeq(s, i + 1, Len(s))

Range(s) == {s[i] : i \in 1..Len(s)}

RECURSIVE Filter(_, _)
\* prev.filter((a) => a.id !== id)
Filter(s, id) ==
    IF s = <<>> THEN <<>>
    ELSE IF Head(s) = id THEN Filter(Tail(s), id)
    ELSE <<Head(s)>> \o Filter(Tail(s), id)

\* result.endCursor ?? null
OrNull(c) == IF c = UNDEFINED THEN NULL ELSE c

\* a slip: after: undefined, every load-more starts over
NoCursor(c) == UNDEFINED

\* endCursor ?? undefined
OrUndefined(c) == IF c = NULL THEN UNDEFINED ELSE c

\* MediaLibrary.getAssetsAsync({first, sortBy: creationTime, after}) against
\* the store: ids grow with creation time, the newest photo comes first, and
\* `after` is the id of the last asset of the previous page.
getAssetsAsync(lib, after) ==
    LET cand == {i \in lib : after = UNDEFINED \/ i < after}
        page == TakeDesc(cand, PageSize)
    IN  [assets |-> page,
         endCursor |-> IF page = <<>> THEN after ELSE page[Len(page)],
         hasNextPage |-> Cardinality(cand) > Len(page)]

\* what a render hands to loadMoreAssets (deps of line 82), to the effect of
\* lines 90-94 and to the tree of lines 142-257
Snapshot(p, s, a, c, h, l) ==
    [hasMediaPermission |-> p, screen |-> s, endCursor |-> c, hasNextPage |-> h,
     isLoadingAssets |-> l,
     listShown |-> p = "true" /\ s = "gallery" /\ ~(Len(a) = 0 /\ ~l)]

Current == Snapshot(hasMediaPermission, screen, assets, endCursor, hasNextPage,
                    isLoadingAssets)

RenderPending == rendered # Current

\* what the rendered tree shows, lines 142-257
GalleryShown == rendered.hasMediaPermission = "true" /\ rendered.screen = "gallery"
ListShown == rendered.listShown
CameraShown == rendered.hasMediaPermission = "true" /\ rendered.screen = "camera"
ViewerShown == rendered.hasMediaPermission = "true" /\ rendered.screen = "viewer"
                  /\ selectedAsset # NULL

\* a getAssetsAsync call: its kind, who awaits it, the store's answer (taken
\* from the store's content when the call is made), whether the CameraScreen
\* awaiting it is still mounted, and whether the call changed the Gallery
\* State before its request went out
Request(kind, caller, lib, after, live, reset) ==
    [kind |-> kind, caller |-> caller, after |-> after,
     result |-> getAssetsAsync(lib, after), live |-> live, reset |-> reset]

\* ---- initial state ----
Init ==
    /\ hasMediaPermission = "null"
    /\ assets = <<>>
    /\ endCursor = NULL
    /\ hasNextPage = TRUE
    /\ isLoadingAssets = FALSE
    /\ screen = "gallery"
    /\ selectedAsset = NULL
    /\ cameraPermission = FALSE
    /\ isSaving = FALSE
    /\ rendered = Snapshot("null", "gallery", <<>>, NULL, TRUE, FALSE)
    /\ library = 1..NumAssets
    /\ nextId = NumAssets + 1
    /\ inflight = <<>>
    /\ deletes = <<>>
    /\ shots = <<>>
    /\ camRequests = 0
    /\ shares = <<>>
    /\ platformOS \in {"android", "web"}
    /\ refreshed = <<>>
    /\ alert = "none"

\* ---- bookkeeping on the calls in flight ----
\* the CameraScreen that started them was unmounted: its setIsSaving is dead
Kill(s) == [i \in DOMAIN s |-> [s[i] EXCEPT !.live = FALSE]]

\* platform calls awaiting a response
Pending ==
    Len(inflight) + Len(deletes) + Len(shots) + camRequests + Len(shares)

IsRefresh(r) == r.kind = "initial" /\ r.caller \in {"refresh", "shot"}

\* ---- media permission (effect of lines 33-43) ----
MediaPermissionResult ==
    /\ hasMediaPermission = "null"
    /\ \E granted \in BOOLEAN :
        /\ hasMediaPermission' = IF granted THEN "true" ELSE "false"
        /\ alert' = "none"
    /\ UNCHANGED <<assets, endCursor, hasNextPage, isLoadingAssets, screen,
                   selectedAsset, cameraPermission, isSaving, rendered, library,
                   nextId, inflight, deletes, shots, camRequests, shares, platformOS,
                   refreshed>>

\* ---- render: new closures, the effect of lines 90-94, unmounting ----
Render ==
    /\ RenderPending
    /\ LET effect == hasMediaPermission = "true"
                        /\ rendered.hasMediaPermission # "true"
           unmount == CameraShown /\ screen # "camera"
       IN  /\ effect => Pending < MaxPending
           /\ isSaving' = IF unmount THEN FALSE ELSE isSaving
           /\ shots' = IF unmount THEN Kill(shots) ELSE shots
           /\ rendered' = Current
           \* loadInitialAssets(), lines 45-53
           /\ isLoadingAssets' = IF effect THEN TRUE ELSE isLoadingAssets
           /\ inflight' =
                IF effect
                THEN Append(inflight, Request("initial", "effect", library,
                                              UNDEFINED, FALSE, FALSE))
                ELSE IF unmount THEN Kill(inflight) ELSE inflight
           /\ refreshed' = IF effect THEN <<>> ELSE refreshed
           /\ alert' = "none"
    /\ UNCHANGED <<hasMediaPermission, assets, endCursor, hasNextPage, screen,
                   selectedAsset, cameraPermission, library, nextId, deletes,
                   camRequests, shares, platformOS>>

\* ---- refreshAssets, lines 84-88, with loadInitialAssets up to its await ----
RefreshPress ==
    /\ ~RenderPending
    /\ GalleryShown
    /\ Pending < MaxPending
    /\ endCursor' = NULL
    /\ hasNextPage' = TRUE
    /\ isLoadingAssets' = TRUE
    /\ UNCHANGED <<hasMediaPermission, assets, screen, selectedAsset,
                   cameraPermission, isSaving, library, nextId, deletes, shots,
                   camRequests, shares, platformOS>>
    /\ inflight' = Append(inflight, Request("initial", "refresh", library,
                                            UNDEFINED, FALSE, gallery' # gallery))
    /\ refreshed' = <<>>
    /\ alert' = "none"
    /\ rendered' = Current'

\* ---- loadMoreAssets up to its await, lines 64-72 (FlatList onEndReached) ----
LoadMore ==
    /\ ListShown
    /\ IF ~rendered.hasNextPage \/ rendered.isLoadingAssets
       THEN /\ alert' = "none"
            /\ UNCHANGED <<isLoadingAssets, inflight, refreshed>>
       ELSE /\ Pending < MaxPending
            /\ isLoadingAssets' = TRUE
            /\ inflight' = Append(inflight,
                                  Request("more", "scroll", library,
                                          OrUndefined(rendered.endCursor),
                                          FALSE, FALSE))
            /\ refreshed' = <<>>
            /\ alert' = "none"
    /\ UNCHANGED <<hasMediaPermission, assets, endCursor, hasNextPage, screen,
                   selectedAsset, cameraPermission, isSaving, rendered, library,
                   nextId, deletes, shots, camRequests, shares, platformOS>>

\* a slip: the failure handler gives up on pagination
LoadFailedClearsHasMore ==
    /\ UNCHANGED <<assets, endCursor>>
    /\ hasNextPage' = FALSE

\* the catch blocks of lines 57-59 and 77-79: no state update but the notice
LoadFailed == UNCHANGED <<assets, endCursor, hasNextPage>>

\* ---- the rest of loadInitialAssets (lines 54-61) or of loadMoreAssets
\* (lines 74-81), then of the callers awaiting it (lines 88, 225, 326-328) ----
LoadResponseOf(i, ok) ==
        LET r == inflight[i]
        IN  /\ IF ok
               THEN /\ assets' = IF r.kind = "initial" THEN r.result.assets
                                 ELSE assets \o r.result.assets
                    /\ Len(assets') <= MaxListLen
                    /\ endCursor' = OrNull(r.result.endCursor)
                    /\ hasNextPage' = r.result.hasNextPage
               ELSE LoadFailed
            /\ isLoadingAssets' = FALSE
            /\ screen' = IF r.caller = "shot" THEN "gallery" ELSE screen
            /\ isSaving' = IF r.caller = "shot" /\ r.live THEN FALSE ELSE isSaving
            /\ inflight' = RemoveAt(inflight, i)
            \* inflight is in the order of issue: the last one is the latest call
            /\ refreshed' = IF ok /\ IsRefresh(r) /\ i = Len(inflight)
                            THEN <<r.result>> ELSE refreshed
            /\ alert' = IF ok THEN "none"
                         ELSE IF r.kind = "initial"
                         THEN "Error: Failed to load photos."
                         ELSE "Error: Failed to load more photos."
            /\ UNCHANGED <<hasMediaPermission, selectedAsset, cameraPermission,
                           rendered, library, nextId, deletes, shots, camRequests,
                           shares, platformOS>>

LoadResponse ==
    \E i \in 1..Len(inflight), ok \in BOOLEAN : LoadResponseOf(i, ok)

\* ---- openCamera up to its await or its end, lines 96-109 ----
OpenCameraPress ==
    /\ ~RenderPending
    /\ GalleryShown
    /\ IF platformOS = "web"
       THEN /\ alert' = "Not supported: Camera is not supported on web in this demo."
            /\ UNCHANGED <<screen, camRequests, rendered>>
       ELSE IF ~cameraPermission
       THEN /\ Pending < MaxPending
            /\ camRequests' = camRequests + 1
            /\ alert' = "none"
            /\ UNCHANGED <<screen, rendered>>
       ELSE /\ screen' = "camera"
            /\ alert' = "none"
            /\ camRequests' = camRequests
            /\ rendered' = [rendered EXCEPT !.screen = "camera",
                                             !.listShown = FALSE]
    /\ UNCHANGED <<hasMediaPermission, assets, endCursor, hasNextPage,
                   isLoadingAssets, selectedAsset, cameraPermission, isSaving,
                   library, nextId, inflight, deletes, shots, shares, platformOS,
                   refreshed>>

\* a slip: the return of line 105 is missing
OpenCameraIgnoresDenial(granted) ==
    /\ screen' = "camera"
    /\ alert' = IF granted THEN "none"
                 ELSE "Permission required: Camera access is needed to take photos."

\* openCamera once requestCameraPermission has answered, lines 103-108
OpenCameraAfterRequest(granted) ==
    /\ screen' = IF granted THEN "camera" ELSE screen
    /\ alert' = IF granted THEN "none"
                 ELSE "Permission required: Camera access is needed to take photos."

\* ---- the rest of openCamera, lines 102-108 ----
CameraPermissionResponse ==
    /\ camRequests > 0
    /\ camRequests' = camRequests - 1
    /\ \E granted \in BOOLEAN :
        /\ cameraPermission' = granted
        /\ OpenCameraAfterRequest(granted)
    /\ UNCHANGED <<hasMediaPermission, assets, endCursor, hasNextPage,
                   isLoadingAssets, selectedAsset, isSaving, rendered, library,
                   nextId, inflight, deletes, shots, shares, platformOS, refreshed>>

\* ---- onSelectAsset, lines 111-114 (a thumbnail of the rendered list) ----
SelectAsset ==
    /\ ~RenderPending
    /\ ListShown
    /\ \E a \in Range(assets) : selectedAsset' = a
    /\ screen' = "viewer"
    /\ alert' = "none"
    /\ UNCHANGED <<hasMediaPermission, assets, endCursor, hasNextPage,
                   isLoadingAssets, cameraPermission, isSaving, library, nextId,
                   inflight, deletes, shots, camRequests, shares, platformOS, refreshed>>
    /\ rendered' = Current'

\* ---- the viewer's Back, lines 234-237 ----
ViewerBack ==
    /\ ~RenderPending
    /\ ViewerShown
    /\ selectedAsset' = NULL
    /\ screen' = "gallery"
    /\ alert' = "none"
    /\ UNCHANGED <<hasMediaPermission, assets, endCursor, hasNextPage,
                   isLoadingAssets, cameraPermission, isSaving, library, nextId,
                   inflight, deletes, shots, camRequests, shares, platformOS, refreshed>>
    /\ rendered' = Current'

\* ---- onShareSelected up to its first await, lines 116-119 ----
SharePress ==
    /\ ~RenderPending
    /\ ViewerShown
    /\ IF selectedAsset = NULL
       THEN shares' = shares
       ELSE /\ Pending < MaxPending
            /\ shares' = Append(shares, "available")
    /\ alert' = "none"
    /\ UNCHANGED <<hasMediaPermission, assets, endCursor, hasNextPage,
                   isLoadingAssets, screen, selectedAsset, cameraPermission,
                   isSaving, rendered, library, nextId, inflight, deletes,
                   shots, camRequests, platformOS, refreshed>>

\* a slip: the return of line 122 is missing
ShareDespiteUnavailable(i, outcome) ==
    /\ shares' = IF outcome \in {"available", "unavailable"}
                 THEN [shares EXCEPT ![i] = "share"]
                 ELSE RemoveAt(shares, i)
    /\ alert' = IF outcome = "available" THEN "none"
                 ELSE IF outcome = "unavailable"
                 THEN "Unavailable: Sharing is not available on this platform."
                 ELSE "Share failed: Unable to share this photo."

\* onShareSelected once isAvailableAsync has answered, lines 119-127
ShareAfterAvailability(i, outcome) ==
    /\ shares' = IF outcome = "available"
                 THEN [shares EXCEPT ![i] = "share"]
                 ELSE RemoveAt(shares, i)
    /\ alert' = IF outcome = "available" THEN "none"
                 ELSE IF outcome = "unavailable"
                 THEN "Unavailable: Sharing is not available on this platform."
                 ELSE "Share failed: Unable to share this photo."

\* ---- onShareSelected after isAvailableAsync, lines 119-127 ----
ShareAvailabilityResponseOf(i, outcome) ==
    /\ shares[i] = "available"
    /\ ShareAfterAvailability(i, outcome)
    /\ UNCHANGED <<hasMediaPermission, assets, endCursor, hasNextPage,
                   isLoadingAssets, screen, selectedAsset, cameraPermission,
                   isSaving, rendered, library, nextId, inflight, deletes,
                   shots, camRequests, platformOS, refreshed>>

ShareAvailabilityResponse ==
    \E i \in 1..Len(shares), outcome \in {"available", "unavailable", "throw"} :
        ShareAvailabilityResponseOf(i, outcome)

\* ---- onShareSelected after shareAsync, lines 124-127 ----
ShareResponse ==
    \E i \in 1..Len(shares), ok \in BOOLEAN :
        /\ shares[i] = "share"
        /\ shares' = RemoveAt(shares, i)
        /\ alert' = IF ok THEN "none"
                     ELSE "Share failed: Unable to share this photo."
        /\ UNCHANGED <<hasMediaPermission, assets, endCursor, hasNextPage,
                       isLoadingAssets, screen, selectedAsset,
                       cameraPermission, isSaving, rendered, library, nextId,
                       inflight, deletes, shots, camRequests, platformOS,
                       refreshed>>

\* photos deleted from the store so far
Deletions == (nextId - 1) - Cardinality(library)

\* ---- onDeleteSelected up to its await, lines 130-133 ----
DeletePress ==
    /\ ~RenderPending
    /\ ViewerShown
    /\ IF selectedAsset = NULL
       THEN deletes' = deletes
       ELSE /\ Pending < MaxPending
            /\ Deletions + Len(deletes) < MaxDeletions
            /\ deletes' = Append(deletes, selectedAsset)
    /\ alert' = "none"
    /\ UNCHANGED <<hasMediaPermission, assets, endCursor, hasNextPage,
                   isLoadingAssets, screen, selectedAsset, cameraPermission,
                   isSaving, rendered, library, nextId, inflight, shots,
                   camRequests, shares, platformOS, refreshed>>

\* a slip: the filter's test is inverted (a.id === id)
DeleteSuccessKeepsOnlyId(id) ==
    /\ assets' = SelectSeq(assets, LAMBDA a : a = id)
    /\ selectedAsset' = NULL
    /\ screen' = "gallery"

\* a slip: the selection is cleared and the viewer stays
DeleteSuccessKeepsViewer(id) ==
    /\ assets' = Filter(assets, id)
    /\ selectedAsset' = NULL
    /\ screen' = screen

\* the updates of onDeleteSelected after the deletion, lines 134-136
DeleteSuccess(id) ==
    /\ assets' = Filter(assets, id)
    /\ selectedAsset' = NULL
    /\ screen' = "gallery"

\* a slip: the catch block leaves the viewer as the success path does
DeleteFailedClosesViewer ==
    /\ assets' = assets
    /\ selectedAsset' = NULL
    /\ screen' = "gallery"

\* the catch block of lines 137-139: no state update but the notice
DeleteFailed == UNCHANGED <<assets, selectedAsset, screen>>

\* ---- the rest of onDeleteSelected, lines 134-139 ----
DeleteResponseOf(i, ok) ==
        LET id == deletes[i]
        IN  /\ deletes' = RemoveAt(deletes, i)
            /\ IF ok
               THEN /\ library' = library \ {id}
                    /\ DeleteSuccess(id)
                    /\ refreshed' = <<>>
               ELSE /\ DeleteFailed
                    /\ UNCHANGED <<library, refreshed>>
            /\ alert' = IF ok THEN "none" ELSE "Delete failed: Unable to delete this photo."
            /\ UNCHANGED <<hasMediaPermission, endCursor, hasNextPage,
                           isLoadingAssets, cameraPermission, isSaving, rendered,
                           nextId, inflight, shots, camRequests, shares, platformOS>>

DeleteResponse ==
    \E i \in 1..Len(deletes), ok \in BOOLEAN : DeleteResponseOf(i, ok)

\* ---- CameraScreen onClose, line 222 ----
CameraClose ==
    /\ ~RenderPending
    /\ CameraShown
    /\ screen' = "gallery"
    \* the CameraScreen is unmounted by the render that follows
    /\ isSaving' = FALSE
    /\ shots' = Kill(shots)
    /\ inflight' = Kill(inflight)
    /\ alert' = "none"
    /\ UNCHANGED <<hasMediaPermission, assets, endCursor, hasNextPage,
                   isLoadingAssets, selectedAsset, cameraPermission, library,
                   nextId, deletes, camRequests, shares, platformOS, refreshed>>
    /\ rendered' = Current'

\* photos taken so far that are being saved or have been saved
Captures ==
    Cardinality({i \in 1..Len(shots) : shots[i].stage = "save"})
        + (nextId - NumAssets - 1)

\* ---- onTakeShot up to takePictureAsync, lines 311-318 ----
TakeShotPress ==
    /\ ~RenderPending
    /\ CameraShown
    /\ IF isSaving
       THEN shots' = shots
       ELSE /\ Pending < MaxPending
            /\ NumAssets + Captures < MaxId
            /\ shots' = Append(shots, [stage |-> "picture", live |-> TRUE])
    /\ alert' = "none"
    /\ UNCHANGED <<hasMediaPermission, assets, endCursor, hasNextPage,
                   isLoadingAssets, screen, selectedAsset, cameraPermission,
                   isSaving, rendered, library, nextId, inflight, deletes,
                   camRequests, shares, platformOS, refreshed>>

\* ---- onTakeShot after takePictureAsync, lines 318-321 and 324-328 ----
PictureResponse ==
    \E i \in 1..Len(shots), outcome \in {"photo", "nouri", "throw"} :
        LET s == shots[i]
        IN  /\ s.stage = "picture"
            /\ IF outcome = "photo"
               THEN /\ NumAssets + Captures < MaxId
                    /\ isSaving' = IF s.live THEN TRUE ELSE isSaving
                    /\ shots' = [shots EXCEPT ![i].stage = "save"]
               ELSE /\ isSaving' = IF s.live THEN FALSE ELSE isSaving
                    /\ shots' = RemoveAt(shots, i)
            /\ alert' = IF outcome = "throw" THEN "Error: Failed to take photo." ELSE "none"
            /\ UNCHANGED <<hasMediaPermission, assets, endCursor, hasNextPage,
                           isLoadingAssets, screen, selectedAsset,
                           cameraPermission, rendered, library, nextId, inflight,
                           deletes, camRequests, shares, platformOS, refreshed>>

\* a slip: refreshAssets is started but not awaited before leaving the camera
onShotSavedWithoutAwait(live) ==
    /\ endCursor' = NULL
    /\ hasNextPage' = TRUE
    /\ isLoadingAssets' = TRUE
    /\ inflight' = Append(inflight,
                          Request("initial", "shot", library', UNDEFINED,
                                  live, gallery' # gallery))
    /\ refreshed' = <<>>
    /\ screen' = "gallery"

\* onShotSaved (lines 223-226) up to the await of loadInitialAssets inside
\* refreshAssets: setScreen('gallery') waits for the refresh
onShotSaved(live) ==
    /\ endCursor' = NULL
    /\ hasNextPage' = TRUE
    /\ isLoadingAssets' = TRUE
    /\ inflight' = Append(inflight,
                          Request("initial", "shot", library', UNDEFINED,
                                  live, gallery' # gallery))
    /\ refreshed' = <<>>
    /\ screen' = screen

\* ---- onTakeShot after saveToLibraryAsync, lines 322-328: onShotSaved
\* (line 224) runs refreshAssets up to the await of loadInitialAssets ----
SaveResponse ==
    \E i \in 1..Len(shots), ok \in BOOLEAN :
        LET s == shots[i]
        IN  /\ s.stage = "save"
            /\ shots' = RemoveAt(shots, i)
            /\ assets' = assets
            /\ IF ok
               THEN /\ library' = library \cup {nextId}
                    /\ nextId' = nextId + 1
                    /\ onShotSaved(s.live)
                    /\ isSaving' = isSaving
               ELSE /\ isSaving' = IF s.live THEN FALSE ELSE isSaving
                    /\ UNCHANGED <<library, nextId, endCursor, hasNextPage,
                                   isLoadingAssets, inflight, refreshed, screen>>
            /\ alert' = IF ok THEN "none" ELSE "Error: Failed to take photo."
            /\ UNCHANGED <<hasMediaPermission, selectedAsset,
                           cameraPermission, rendered, deletes, camRequests,
                           shares, platformOS>>

Next ==
    \/ MediaPermissionResult
    \/ Render
    \/ RefreshPress
    \/ LoadMore
    \/ LoadResponse
    \/ OpenCameraPress
    \/ CameraPermissionResponse
    \/ SelectAsset
    \/ ViewerBack
    \/ DeletePress
    \/ DeleteResponse
    \/ SharePress
    \/ ShareAvailabilityResponse
    \/ ShareResponse
    \/ CameraClose
    \/ TakeShotPress
    \/ PictureResponse
    \/ SaveResponse

Spec == Init /\ [][Next]_vars

\* ======================= claims =======================

\* C1: in every reachable state at most one pagination request (initial load,
\* refresh or load-more) is awaiting its response.
AtMostOnePaginationRequest == Len(inflight) <= 1

\* C2: a loadMoreAssets call made while an earlier load-more request is still
\* awaiting its response issues no request and changes no state.
MoreOutstanding == \E i \in 1..Len(inflight) : inflight[i].kind = "more"

SecondLoadMoreIsDropped ==
    [][(MoreOutstanding /\ LoadMore)
          => UNCHANGED <<inflight, isLoadingAssets, assets, endCursor,
                         hasNextPage>>]_vars

\* C3: the asset list never holds the same identifier twice (the store's pages
\* for successive cursors never overlap: getAssetsAsync returns ids below the
\* cursor only).
NoDuplicateIdentifiers ==
    \A i, j \in 1..Len(assets) : i # j => assets[i] # assets[j]

\* C4: once a refresh has succeeded, and until a later pagination call is
\* issued, the asset list, cursor and has-more are exactly those of the page
\* the refresh fetched.
ListIsTheRefreshedPage ==
    refreshed # <<>> =>
        /\ assets = refreshed[1].assets
        /\ endCursor = OrNull(refreshed[1].endCursor)
        /\ hasNextPage = refreshed[1].hasNextPage

\* C5: the response of an initial load or refresh that was issued before the
\* latest refresh, arriving after that refresh's response, leaves the list,
\* cursor and has-more of the refresh in place.
StaleInitialResponseIsDiscarded ==
    [][\A i \in 1..Len(inflight) :
          (refreshed # <<>> /\ inflight[i].kind = "initial"
              /\ LoadResponseOf(i, TRUE))
          => UNCHANGED <<assets, endCursor, hasNextPage>>]_vars

\* C6: in every reachable state, screen = "viewer" implies that selectedAsset
\* is not null.
ViewerHasSelection == screen = "viewer" => selectedAsset # NULL

\* the viewer is open on one asset while the deletion of another, requested
\* before the user went back, is still awaiting its response
ViewerOpenWhileOtherDeletePending ==
    /\ screen = "viewer"
    /\ selectedAsset # NULL
    /\ deletes # <<>>
    /\ selectedAsset \notin Range(deletes)

\* C7: in every reachable state, selectedAsset is non-null only while
\* screen = "viewer".
SelectionOnlyInViewer == selectedAsset # NULL => screen = "viewer"

\* C8: every change of screen is Gallery->Camera, Camera->Gallery,
\* Gallery->Viewer or Viewer->Gallery.
OnlyLegalScreenChanges ==
    [][\/ screen' = screen
       \/ <<screen, screen'>> \in {<<"gallery", "camera">>, <<"camera", "gallery">>,
                                   <<"gallery", "viewer">>, <<"viewer", "gallery">>}]_vars

\* C9: the response of a delete of asset A that arrives after the user has
\* pressed Back, and has then opened another asset B or the camera, leaves
\* screen and selectedAsset unchanged.
NavigatedAway(id) ==
    \/ screen = "viewer" /\ selectedAsset \notin {NULL, id}
    \/ screen = "camera" /\ selectedAsset = NULL

LateDeleteResponseLeavesNavigation ==
    [][\A i \in 1..Len(deletes) :
          (NavigatedAway(deletes[i])
              /\ (DeleteResponseOf(i, TRUE) \/ DeleteResponseOf(i, FALSE)))
          => UNCHANGED <<screen, selectedAsset>>]_vars

\* C10: when the request of loadInitialAssets or refreshAssets fails, the call
\* has changed nothing of the asset list, cursor and has-more, neither before
\* its request nor on the failure, and the "Failed to load photos." notice is
\* raised.
FailedInitialLoadChangesNothing ==
    [][\A i \in 1..Len(inflight) :
          (inflight[i].kind = "initial" /\ LoadResponseOf(i, FALSE))
          => /\ ~inflight[i].reset
             /\ UNCHANGED <<assets, endCursor, hasNextPage>>
             /\ alert' = "Error: Failed to load photos."]_vars

LoadMoreWithoutHasMoreIsNoOp ==
    [][(~hasNextPage /\ LoadMore)
          => UNCHANGED <<inflight, assets, endCursor, hasNextPage,
                         isLoadingAssets>>]_vars

\* C13: with no other request outstanding, the response of an initial load
\* makes the list its page P1; each loadMoreAssets call the list then makes
\* (from the render of the pages so far) carries the cursor of the last page,
\* and its response appends its page; cursor and has-more are those of the
\* last page.
PageCursor(r) == IF r.result.endCursor = UNDEFINED THEN NULL
                 ELSE r.result.endCursor

Occurrences(s, id) == Cardinality({k \in 1..Len(s) : s[k] = id})

DeleteRemovesExactlyOneEntry ==
    [][\A i \in 1..Len(deletes) :
          (Occurrences(assets, deletes[i]) = 1 /\ DeleteResponseOf(i, TRUE))
          => /\ \E k \in 1..Len(assets) :
                    /\ assets[k] = deletes[i]
                    /\ assets' = RemoveAt(assets, k)
             /\ selectedAsset' = NULL
             /\ screen' = "gallery"]_vars

\* a photo of a longer list has just been deleted from the viewer: the
\* other photos are listed, the viewer has not been re-rendered yet
DeletedOneOfSeveral ==
    /\ deletes = <<>>
    /\ Deletions = 1
    /\ assets # <<>>
    /\ Range(assets) \subseteq library
    /\ selectedAsset = NULL
    /\ screen = "gallery"
    /\ rendered.screen = "viewer"

\* C15: when the platform deletion fails, the asset list, selectedAsset and
\* screen are unchanged (a viewer open on the asset stays open on it) and the
\* "Delete failed" notice, which is none of the load notices, is raised.
FailedDeleteChangesNothing ==
    [][\A i \in 1..Len(deletes) :
          DeleteResponseOf(i, FALSE)
          => /\ UNCHANGED <<assets, selectedAsset, screen>>
             /\ (screen = "viewer" /\ selectedAsset = deletes[i]
                    => screen' = "viewer" /\ selectedAsset' = deletes[i])
             /\ alert' = "Delete failed: Unable to delete this photo."
             /\ alert' \notin {"Error: Failed to load photos.",
                                "Error: Failed to load more photos."}]_vars

\* a deletion has just failed and the viewer is still open on the asset
ViewerStillOpenAfterFailedDelete ==
    /\ alert = "Delete failed: Unable to delete this photo."
    /\ screen = "viewer"
    /\ selectedAsset # NULL
    /\ selectedAsset \in Range(assets)
    /\ selectedAsset \in library
    /\ deletes = <<>>

\* C16: the screen becomes "camera" only in a step in which camera permission
\* is granted: an openCamera that finds it not granted does not change the
\* screen before the permission request has answered, and when the request
\* is denied the "Permission required" notice is raised and the screen stays
\* what it is ("gallery").
CameraOnlyWithPermission ==
    [][/\ (screen # "camera" /\ screen' = "camera") => cameraPermission'
       /\ (OpenCameraPress /\ ~cameraPermission) => screen' = screen
       /\ (CameraPermissionResponse /\ ~cameraPermission')
            => /\ screen' = screen
               /\ alert' = "Permission required: Camera access is needed to take photos."]_vars

\* the permission request has just been denied and the gallery is still shown
CameraDeniedStaysInGallery ==
    /\ alert = "Permission required: Camera access is needed to take photos."
    /\ ~cameraPermission
    /\ camRequests = 0
    /\ screen = "gallery"
    /\ GalleryShown

\* C17: a successful save issues the refresh and leaves the screen alone; a
\* capture's steps change the screen from "camera" to "gallery" only in the
\* step that handles the response of that refresh (its page applied, or its
\* failure notified), never while the refresh is still outstanding; a failed
\* capture or a failed save issues no refresh and changes neither the screen
\* nor the Gallery State.
RefreshHandledBeforeLeavingCamera ==
    [][/\ (SaveResponse /\ nextId' # nextId)
            => /\ screen' = screen
               /\ Len(inflight') = Len(inflight) + 1
               /\ inflight'[Len(inflight')].kind = "initial"
               /\ inflight'[Len(inflight')].caller = "shot"
               /\ nextId \in Range(inflight'[Len(inflight')].result.assets)
       /\ (SaveResponse /\ nextId' = nextId)
            => UNCHANGED <<screen, inflight, assets, endCursor, hasNextPage>>
       /\ PictureResponse
            => UNCHANGED <<screen, inflight, assets, endCursor, hasNextPage>>
       /\ (screen = "camera" /\ screen' = "gallery"
              /\ ~CameraClose /\ ~DeleteResponse)
            => \E i \in 1..Len(inflight) :
                  /\ inflight[i].caller = "shot"
                  /\ inflight' = RemoveAt(inflight, i)
                  /\ \/ assets' = inflight[i].result.assets
                     \/ alert' = "Error: Failed to load photos."]_vars

\* a capture has been saved and its refresh handled: the new photo heads the
\* list and the screen is "gallery", the camera not yet re-rendered away
CapturedPhotoListedOnReturn ==
    /\ nextId > NumAssets + 1
    /\ shots = <<>>
    /\ \A i \in 1..Len(inflight) : inflight[i].caller # "shot"
    /\ assets # <<>>
    /\ assets[1] = nextId - 1
    /\ screen = "gallery"
    /\ rendered.screen = "camera"

\* C18: every step of a share request (the press, the answer of
\* isAvailableAsync, the end of the share flow, successful or failed) leaves
\* the asset list, cursor, has-more, selectedAsset and screen unchanged; when
\* sharing is unavailable the "Unavailable" notice is raised and no share
\* flow is started.
ShareLeavesGalleryAndScreen ==
    [][/\ (SharePress \/ ShareAvailabilityResponse \/ ShareResponse)
            => UNCHANGED <<assets, endCursor, hasNextPage, selectedAsset,
                           screen>>
       /\ \A i \in 1..Len(shares) :
            ShareAvailabilityResponseOf(i, "unavailable")
            => /\ alert' = "Unavailable: Sharing is not available on this platform."
               /\ shares' = RemoveAt(shares, i)]_vars

\* sharing has just been found unavailable: the viewer is still open on the
\* asset and no share flow runs
ShareUnavailableNotified ==
    /\ alert = "Unavailable: Sharing is not available on this platform."
    /\ shares = <<>>
    /\ screen = "viewer"
    /\ selectedAsset \in Range(assets)

\* C19: in every reachable state isLoadingAssets is true whenever at least
\* one pagination request is awaiting its response.
FlagCoversOutstandingRequests == inflight # <<>> => isLoadingAssets

\* C20: a press of the capture button made while a capture-and-save started
\* on this camera screen has not finished its takePictureAsync,
\* saveToLibraryAsync and refresh starts no second takePictureAsync.
CaptureInProgress ==
    \/ \E i \in 1..Len(shots) : shots[i].live
    \/ \E i \in 1..Len(inflight) :
          inflight[i].caller = "shot" /\ inflight[i].live

SecondShotIsDropped ==
    [][(CaptureInProgress /\ TakeShotPress) => UNCHANGED shots]_vars

====
